---- MODULE Spec2Model ----
(***************************************************************************)
(* Serialized-release scheduler of the story engine                        *)
(* (src/story_engine/scheduler.py, class EpisodeScheduler).                *)
(*                                                                         *)
(* Time is counted in minutes of absolute (UTC) time.  A Python datetime   *)
(* is a record [wall, off, aware]: the wall-clock reading, the UTC offset  *)
(* of its tzinfo, and whether it has a tzinfo at all.  A DateTime column   *)
(* of the SQLite database keeps the wall-clock reading only.               *)
(* Nullable columns are sequences of length 0 (NULL) or 1.                 *)
(***************************************************************************)
EXTENDS Integers, Sequences, FiniteSets, TLC

(* ---------------- bounds of the model ---------------- *)
NumEpisodes == 3
MaxFaults == 2
MaxScheduleCalls == 2
MaxSendFaults == 3

(* ---------------- program constants ---------------- *)
Day == 1440
Week == 10080
RetryDelay == 60
MisfireGrace == 5
MaxRetries == 3
BaseDelay == 1

Stories == {"s1", "s2"}

\* Story.total_episodes
TotalEpisodes(s) == NumEpisodes
Frequencies == {"daily", "weekly", "custom"}
Timezones == {"UTC", "America/New_York"}
Null == << >>
Some(v) == << v >>

(* ---------------- datetime arithmetic ---------------- *)
\* pytz.timezone(name): the zone's offset from UTC (standard time)
UtcOffset(tz) == IF tz = "UTC" THEN 0 ELSE 0 - 300

\* tz.localize(naive): same wall clock, tzinfo attached
Localize(dt, tz) == [wall |-> dt.wall, off |-> UtcOffset(tz), aware |-> TRUE]

\* aware.astimezone(tz): same instant, wall clock of tz
AsTimezone(dt, tz) ==
    [wall |-> dt.wall - dt.off + UtcOffset(tz), off |-> UtcOffset(tz), aware |-> TRUE]

\* the absolute instant of an aware datetime
Instant(dt) == dt.wall - dt.off

\* value kept by a DateTime column for dt.astimezone(timezone.utc)
ToColumn(dt) == AsTimezone(dt, "UTC").wall

\* a DateTime column read back: a naive datetime
FromColumn(v) == [wall |-> v, off |-> 0, aware |-> FALSE]

PlusMinutes(dt, d) == [dt EXCEPT !.wall = @ + d]

\* faulty variant: a cadence that is neither daily nor weekly steps by a week
CalculateNextRelease_OtherWeekly(dt, freq) ==
    IF freq = "daily" THEN PlusMinutes(dt, Day)
    ELSE PlusMinutes(dt, Week)

CalculateNextRelease(dt, freq) ==
    IF freq = "daily" THEN PlusMinutes(dt, Day)
    ELSE IF freq = "weekly" THEN PlusMinutes(dt, Week)
    ELSE PlusMinutes(dt, Day)

\* start_date after the timezone conversion of schedule_story_episodes
ConvertStart(start_date, tz) ==
    IF ~start_date.aware THEN Localize(start_date, tz)
    ELSE AsTimezone(start_date, tz)

RECURSIVE NthRelease(_, _, _)
\* current_release_time at the k-th iteration (k = 0, 1, ...) of the loop
NthRelease(first, freq, k) ==
    IF k = 0 THEN first
    ELSE CalculateNextRelease(NthRelease(first, freq, k - 1), freq)

VARIABLES
    now,            \* datetime.now(timezone.utc), minutes
    running,        \* EpisodeScheduler._running
    story,          \* rows of table stories
    episode,        \* rows of table episodes, by (story, episode_index)
    jobs,           \* the job store: job id -> run_date
    last,           \* the last handler that ran and how it ended
    publishCount,   \* commits that set an episode published
    notifyCount,    \* calls of _send_episode_notification
    faults,         \* failed publish transactions and scheduler stops so far
    schedCalls,     \* schedule requests so far
    inflight,       \* per scheduler process: its running _publish_episode call
    prefs,          \* rows of table notification_preferences, by user_id
    subs,           \* rows of table push_subscriptions (their ids)
    nw,             \* the running call of send_episode_notifications and the
                    \* rows it has added to table notification_logs
    tasks           \* the background tasks queued by create_story

schedVars == << now, running, story, episode, jobs, last, publishCount, notifyCount,
                faults, schedCalls, inflight >>

notifyVars == << prefs, subs, nw >>

vars == << schedVars, notifyVars, tasks >>

JobIds == [story : Stories, idx : 1..NumEpisodes, retry : BOOLEAN]

\* f"publish_episode_{story_id}_{episode_index}"
JobId(s, i) == [story |-> s, idx |-> i, retry |-> FALSE]

\* f"{job_id}_retry"
RetryJobId(s, i) == [story |-> s, idx |-> i, retry |-> TRUE]

\* scheduler.add_job(..., id = j, run_date = t, replace_existing = True)
AddJob(store, j, t) == [k \in DOMAIN store \cup {j} |-> IF k = j THEN t ELSE store[k]]

\* scheduler.remove_job(j)
RemoveJob(store, j) == [k \in DOMAIN store \ {j} |-> store[k]]

\* the live jobs whose args are (s, *)
JobsOfStory(s) == {j \in DOMAIN jobs : j.story = s}

\* the live jobs whose args are (s, i)
JobsOfEpisode(s, i) == {j \in DOMAIN jobs : j.story = s /\ j.idx = i}

\* the aware start datetimes a schedule request may carry
StartDates == {[wall |-> 600, off |-> 0, aware |-> TRUE],
               [wall |-> 2100, off |-> 0 - 300, aware |-> TRUE]}

NowUtc == [wall |-> now, off |-> 0, aware |-> TRUE]

NoCall == [op |-> "none", story |-> "none", idx |-> 0, outcome |-> "none",
           start |-> Null, freq |-> "none", tz |-> "none", prev |-> "none"]

\* the episode_index values of the rows of story s in table episodes
EpisodesOf(s) == DOMAIN episode[s]

(* ---------------- schedule_story_episodes ---------------- *)
\* faulty variant: the status filter of the query is dropped
Unpublished_AnyStatus(s) == EpisodesOf(s)

\* Episode.status.in_(['draft', 'scheduled'])
Unpublished(s) == {i \in EpisodesOf(s) : episode[s][i].status \in {"draft", "scheduled"}}

\* position of episode i in the query result ordered by episode_index
Rank(s, i) == Cardinality({j \in Unpublished(s) : j < i})

\* next_release = self._calculate_next_release(start_date, release_frequency)
FirstRelease(start_date, freq, tz) ==
    CalculateNextRelease(ConvertStart(start_date, tz), freq)

\* current_release_time when the loop reaches episode i
ReleaseTime(s, i, start_date, freq, tz) ==
    NthRelease(FirstRelease(start_date, freq, tz), freq, Rank(s, i))

ScheduledStoryRow(s, start_date, freq, tz) ==
    [story[s] EXCEPT !.is_serialized = TRUE,
                     !.start_date = Some(ToColumn(ConvertStart(start_date, tz))),
                     !.release_frequency = freq,
                     !.timezone = tz,
                     !.next_release_at = Some(ToColumn(FirstRelease(start_date, freq, tz)))]

ScheduledEpisodeRows(s, start_date, freq, tz) ==
    [i \in EpisodesOf(s) |->
        IF i \in Unpublished(s)
        THEN [episode[s][i] EXCEPT
                 !.status = "scheduled",
                 !.scheduled_for = Some(ToColumn(ReleaseTime(s, i, start_date, freq, tz)))]
        ELSE episode[s][i]]

\* the job store after the loop: one job per unpublished episode, replacing
\* the job of the same id
ScheduledJobs(store, s, start_date, freq, tz) ==
    [k \in DOMAIN store \cup {JobId(s, i) : i \in Unpublished(s)} |->
        IF k.story = s /\ ~k.retry /\ k.idx \in Unpublished(s)
        THEN Instant(ReleaseTime(s, k.idx, start_date, freq, tz))
        ELSE store[k]]

\* POST /stories/{story_id}/schedule: the request validation of
\* StoryScheduleRequest and schedule_story_release, then the whole of
\* EpisodeScheduler.schedule_story_episodes
ScheduleStoryRelease(s, start_date, freq, tz) ==
    /\ running
    /\ schedCalls < MaxScheduleCalls
    /\ Instant(start_date) > now
    /\ story[s].completed_episodes # 0
    /\ story' = [story EXCEPT ![s] = ScheduledStoryRow(s, start_date, freq, tz)]
    /\ episode' = [episode EXCEPT ![s] = ScheduledEpisodeRows(s, start_date, freq, tz)]
    /\ jobs' = ScheduledJobs(jobs, s, start_date, freq, tz)
    /\ last' = [op |-> "schedule", story |-> s, idx |-> 0, outcome |-> "ok",
                start |-> Some(Instant(start_date)), freq |-> freq, tz |-> tz,
                prev |-> "none"]
    /\ schedCalls' = schedCalls + 1
    /\ UNCHANGED << notifyVars, tasks, now, running, publishCount, notifyCount, faults, inflight >>

(* ---------------- _publish_episode ---------------- *)
\* episode.status = PUBLISHED; episode.published_at = datetime.now(timezone.utc)
PublishedEpisodeRow(row) ==
    [row EXCEPT !.status = "published", !.published_at = Some(now)]

\* the count() of the story's scheduled episodes.  The session is created with
\* autoflush = False, so the query sees the rows of the database: the episode
\* being published is still scheduled there.
RemainingEpisodes(s) ==
    Cardinality({i \in EpisodesOf(s) : episode[s][i].status = "scheduled"})

PublishedStoryRow(s) ==
    [story[s] EXCEPT
        !.completed_episodes = @ + 1,
        !.next_release_at =
            IF RemainingEpisodes(s) > 0
            THEN Some(ToColumn(CalculateNextRelease(NowUtc, story[s].release_frequency)))
            ELSE Null]

\* faulty variant: the retry job is added under the id of the first job
RetryJobs_OriginalId(store, s, i, retry_ok) ==
    IF retry_ok THEN AddJob(store, JobId(s, i), now + RetryDelay) ELSE store

\* the job store after the except branch: the retry job is added unless
\* add_job itself raises (that error is logged and swallowed)
RetryJobs(store, s, i, retry_ok) ==
    IF retry_ok THEN AddJob(store, RetryJobId(s, i), now + RetryDelay) ELSE store

\* faulty variant: the query does not filter on status == SCHEDULED
PublishOutcome_NoStatusFilter(s, i, fail) ==
    IF fail # "none" THEN "raised" ELSE "published"

\* the outcome of the handler: "raised", "noop" or "published"
PublishOutcome(s, i, fail) ==
    IF fail = "query" THEN "raised"
    ELSE IF episode[s][i].status # "scheduled" THEN "noop"
    ELSE IF fail = "commit" THEN "raised"
    ELSE "published"

\* The whole handler, run on job store `store`.  fail names the statement of
\* the try block that raises: the first query, the commit, or none.
PublishEpisode(store, s, i, fail, retry_ok) ==
    LET out == PublishOutcome(s, i, fail) IN
    /\ fail # "none" => faults < MaxFaults
    /\ faults' = IF out = "raised" THEN faults + 1 ELSE faults
    /\ story' = IF out = "published"
                THEN [story EXCEPT ![s] = PublishedStoryRow(s)] ELSE story
    /\ episode' = IF out = "published"
                  THEN [episode EXCEPT ![s][i] = PublishedEpisodeRow(@)] ELSE episode
    /\ publishCount' = IF out = "published"
                       THEN [publishCount EXCEPT ![s][i] = @ + 1] ELSE publishCount
    /\ notifyCount' = IF out = "published"
                      THEN [notifyCount EXCEPT ![s][i] = @ + 1] ELSE notifyCount
    /\ jobs' = IF out = "raised" THEN RetryJobs(store, s, i, retry_ok) ELSE store
    /\ last' = [op |-> "publish", story |-> s, idx |-> i, outcome |-> out,
                start |-> Null, freq |-> "none", tz |-> "none",
                prev |-> IF last.op = "publish" /\ last.story = s /\ last.idx = i
                         THEN last.outcome ELSE "none"]

(* ---------------- the job store's scheduler loop ---------------- *)
\* a job is due when its run_date has come
Due(j) == jobs[j] <= now

\* misfire_grace_time: a due job is run only if it is not later than this
WithinGrace(j) == now - jobs[j] <= MisfireGrace

\* A due date job is taken off the store and its handler is run.
FireJob(j, fail, retry_ok) ==
    /\ running
    /\ j \in DOMAIN jobs
    /\ Due(j) /\ WithinGrace(j)
    /\ PublishEpisode(RemoveJob(jobs, j), j.story, j.idx, fail, retry_ok)
    /\ UNCHANGED << notifyVars, tasks, now, running, schedCalls, inflight >>

\* A due date job that is later than the grace time is dropped without a run.
MisfireJob(j) ==
    /\ running
    /\ j \in DOMAIN jobs
    /\ Due(j) /\ ~WithinGrace(j)
    /\ jobs' = RemoveJob(jobs, j)
    /\ UNCHANGED << notifyVars, tasks, now, running, story, episode, last, publishCount,
                    notifyCount, faults, schedCalls, inflight >>

(* ---------------- cancel_story_schedule ---------------- *)
\* Episode.status == SCHEDULED
ScheduledEpisodes(s) == {i \in EpisodesOf(s) : episode[s][i].status = "scheduled"}

\* faulty variant: the query of cancel_story_schedule does not filter on status
CancelledEpisodeRows_AnyStatus(s) ==
    [i \in EpisodesOf(s) |->
        [episode[s][i] EXCEPT !.status = "draft", !.scheduled_for = Null]]

CancelledEpisodeRows(s) ==
    [i \in EpisodesOf(s) |->
        IF i \in ScheduledEpisodes(s)
        THEN [episode[s][i] EXCEPT !.status = "draft", !.scheduled_for = Null]
        ELSE episode[s][i]]

CancelledStoryRow(s) ==
    [story[s] EXCEPT !.is_serialized = FALSE, !.next_release_at = Null]

\* faulty variant: the job id is built from the episode index alone, so the
\* jobs of the same indexes of every story are removed
CancelledJobs_AnyStory(store, s) ==
    [k \in DOMAIN store \ {j \in JobIds : ~j.retry /\ j.idx \in ScheduledEpisodes(s)} |->
        store[k]]

\* the job store after the loop: the job named after each scheduled episode
\* is removed
CancelledJobs(store, s) ==
    [k \in DOMAIN store \ {JobId(s, i) : i \in ScheduledEpisodes(s)} |-> store[k]]

\* DELETE /stories/{story_id}/schedule, then the whole of
\* EpisodeScheduler.cancel_story_schedule
CancelStorySchedule(s) ==
    /\ running
    /\ story[s].is_serialized
    /\ story' = [story EXCEPT ![s] = CancelledStoryRow(s)]
    /\ episode' = [episode EXCEPT ![s] = CancelledEpisodeRows(s)]
    /\ jobs' = CancelledJobs(jobs, s)
    /\ last' = [op |-> "cancel", story |-> s, idx |-> 0, outcome |-> "ok",
                start |-> Null, freq |-> "none", tz |-> "none", prev |-> "none"]
    /\ UNCHANGED << notifyVars, tasks, now, running, publishCount, notifyCount,
                    faults, schedCalls, inflight >>

\* cancel_story_schedule when db.commit() raises: the jobs are already removed
\* from the job store, db.rollback() undoes the changes of the rows, and the
\* exception goes to the caller
CancelStoryScheduleFails(s) ==
    /\ running
    /\ story[s].is_serialized
    /\ faults < MaxFaults
    /\ faults' = faults + 1
    /\ jobs' = CancelledJobs(jobs, s)
    /\ last' = [op |-> "cancel", story |-> s, idx |-> 0, outcome |-> "raised",
                start |-> Null, freq |-> "none", tz |-> "none", prev |-> "none"]
    /\ UNCHANGED << notifyVars, tasks, now, running, story, episode, publishCount,
                    notifyCount, schedCalls, inflight >>

(* ---------------- start, stop, _reschedule_existing_stories ---------------- *)
\* the filter of _reschedule_existing_stories
NeedsReschedule(s) ==
    /\ story[s].is_serialized
    /\ story[s].next_release_at # Null
    /\ story[s].next_release_at[1] > now

\* story.start_date as the query returns it
StoredStart(s) == FromColumn(story[s].start_date[1])

RescheduledStoryRow(s) ==
    IF NeedsReschedule(s)
    THEN ScheduledStoryRow(s, StoredStart(s), story[s].release_frequency, story[s].timezone)
    ELSE story[s]

RescheduledEpisodeRows(s) ==
    IF NeedsReschedule(s)
    THEN ScheduledEpisodeRows(s, StoredStart(s), story[s].release_frequency,
                              story[s].timezone)
    ELSE episode[s]

\* the ids of the jobs the calls of schedule_story_episodes add
RescheduledIds ==
    UNION {{JobId(s, i) : i \in Unpublished(s)} : s \in {x \in Stories : NeedsReschedule(x)}}

\* the job store after schedule_story_episodes has run for every story found
RescheduledJobs(store) ==
    [k \in DOMAIN store \cup RescheduledIds |->
        IF NeedsReschedule(k.story) /\ ~k.retry /\ k.idx \in Unpublished(k.story)
        THEN Instant(ReleaseTime(k.story, k.idx, StoredStart(k.story),
                                 story[k.story].release_frequency,
                                 story[k.story].timezone))
        ELSE store[k]]

\* EpisodeScheduler.start, called at service start-up
Start ==
    /\ ~running
    /\ running' = TRUE
    /\ story' = [s \in Stories |-> RescheduledStoryRow(s)]
    /\ episode' = [s \in Stories |-> RescheduledEpisodeRows(s)]
    /\ jobs' = RescheduledJobs(jobs)
    /\ last' = [op |-> "start", story |-> "none", idx |-> 0, outcome |-> "ok",
                start |-> Null, freq |-> "none", tz |-> "none", prev |-> "none"]
    /\ UNCHANGED << notifyVars, tasks, now, publishCount, notifyCount, faults,
                    schedCalls, inflight >>

\* EpisodeScheduler.stop, called at service shutdown; the job store is kept
Stop ==
    /\ running
    /\ faults < MaxFaults
    /\ running' = FALSE
    /\ faults' = faults + 1
    /\ UNCHANGED << notifyVars, tasks, now, story, episode, jobs, last, publishCount,
                    notifyCount, schedCalls, inflight >>

(* ---------------- the clock ---------------- *)
\* While the scheduler runs it wakes up at the next run_date, so time never
\* passes a pending job; while it is stopped time may pass the run dates.
TickTargets ==
    IF running
    THEN {jobs[j] : j \in DOMAIN jobs}
    ELSE {jobs[j] : j \in DOMAIN jobs} \cup {jobs[j] + MisfireGrace + 1 : j \in DOMAIN jobs}

Tick(t) ==
    /\ t > now
    /\ running => \A j \in DOMAIN jobs : jobs[j] >= t
    /\ now' = t
    /\ UNCHANGED << notifyVars, tasks, running, story, episode, jobs, last, publishCount,
                    notifyCount, faults, schedCalls, inflight >>

(* ---------------- restarts that lose the job store ---------------- *)
\* While the service is down the Redis job store is lost (flushed, replaced,
\* or never written because the process crashed): no job is left.
LoseJobStore ==
    /\ ~running
    /\ jobs # << >>
    /\ jobs' = << >>
    /\ UNCHANGED << notifyVars, tasks, now, running, story, episode, last, publishCount,
                    notifyCount, faults, schedCalls, inflight >>

(* ---------------- the notification tables ---------------- *)
UserIds == {"u1", "u2", "u3"}

\* the rows of notification_preferences in the order a query returns them
UserOrder == << "u1", "u2", "u3" >>

\* the user_id argument: None, a user with a preferences row, or one without
NotifyArgs == {Null} \cup {Some(u) : u \in UserIds \cup {"u4"}}

Profiles == {"both", "email_only", "push_only", "both_noaddr", "off"}

\* a row of notification_preferences
PrefsRow(profile) ==
    [email_notifications |-> profile \in {"both", "email_only", "both_noaddr"},
     webpush_notifications |-> profile \in {"both", "push_only", "both_noaddr"},
     email_address |-> IF profile = "both_noaddr" THEN Null ELSE Some("addr")]

\* the rows of push_subscriptions, in query order, and their user_id
TargetOrder == << "t1", "t2", "t3" >>
Targets == {"t1", "t2", "t3"}
Owner(t) == IF t = "t1" THEN "u1" ELSE "u2"

\* db.query(PushSubscriptionDB).filter(user_id == u).all() on the live rows
SubsOf(u, live) == SelectSeq(TargetOrder, LAMBDA t : t \in live /\ Owner(t) = u)

\* what the email sender and the push sender may report for one send
EmailOutcomes == {"ok", "failed"}
PushOutcomes == {"ok", "gone", "transient"}

\* the results dictionary of send_episode_notifications
NoResults == [notifications_sent |-> 0, email_sent |-> 0, webpush_sent |-> 0,
              errors |-> << >>]

\* no call of send_episode_notifications has been made
IdleCall == [pc |-> "idle", arg |-> Null, resolved |-> << >>, queue |-> << >>,
             user |-> "none",
             targets |-> << >>, attempt |-> 0, sent_count |-> 0, faults |-> 0,
             log |-> << >>, results |-> NoResults,
             max_retries |-> MaxRetries, retry_results |-> Null]

(* ---------------- the specification ---------------- *)
\* A story row as create_story inserts it, with the count of the episodes
\* generate_episodes_background has generated for it so far
InitStory(generated) ==
    [is_serialized |-> FALSE, start_date |-> Null, release_frequency |-> "daily",
     timezone |-> "UTC", next_release_at |-> Null, completed_episodes |-> generated,
     total_episodes |-> NumEpisodes]

\* At start-up story s1 has all its episodes generated; story s2 has just
\* been created and has no episode yet.
Generated(s) == IF s = "s1" THEN TotalEpisodes(s) ELSE 0

\* the scheduler processes that share the database and the job store
Procs == {"p1", "p2"}

\* no _publish_episode call is running in the process
Idle == [pc |-> "idle", story |-> "none", idx |-> 0, snap |-> InitStory(0), rows |-> {}]

\* create_story has queued no background task
NoTasks == [pc |-> "none", story |-> "none", count |-> 0, i |-> 0,
            schedule |-> Null, waited |-> 0]

InitEpisode == [status |-> "draft", scheduled_for |-> Null, published_at |-> Null]

SchedulerInit ==
    /\ now = 0
    /\ running = FALSE
    /\ story = [s \in Stories |-> InitStory(Generated(s))]
    /\ episode = [s \in Stories |-> [i \in 1..Generated(s) |-> InitEpisode]]
    /\ jobs = << >>
    /\ last = NoCall
    /\ publishCount = [s \in Stories |-> [i \in 1..NumEpisodes |-> 0]]
    /\ notifyCount = [s \in Stories |-> [i \in 1..NumEpisodes |-> 0]]
    /\ faults = 0
    /\ schedCalls = 0
    /\ inflight = [p \in Procs |-> Idle]

Init ==
    /\ SchedulerInit
    /\ prefs = [u \in UserIds |-> PrefsRow("off")]
    /\ subs = Targets
    /\ nw = IdleCall
    /\ tasks = NoTasks

FailPoints == {"none", "query", "commit"}

Next ==
    \/ \E s \in Stories, d \in StartDates, f \in Frequencies, z \in Timezones :
          ScheduleStoryRelease(s, d, f, z)
    \/ \E j \in JobIds, fail \in FailPoints, ok \in BOOLEAN : FireJob(j, fail, ok)
    \/ \E j \in JobIds : MisfireJob(j)
    \/ \E s \in Stories : CancelStorySchedule(s)
    \/ \E s \in Stories : CancelStoryScheduleFails(s)
    \/ Start
    \/ Stop
    \/ \E t \in TickTargets : Tick(t)

Spec == Init /\ [][Next]_vars

(* ---------------- a scheduler that is never shut down ---------------- *)
\* The service stays up and no schedule is cancelled: the job store fires every
\* job at its run_date, and the failures of the publish transaction are
\* bounded by MaxFaults.
NextLive ==
    \/ \E s \in Stories, d \in StartDates, f \in Frequencies, z \in Timezones :
          ScheduleStoryRelease(s, d, f, z)
    \/ \E j \in JobIds, fail \in FailPoints, ok \in BOOLEAN : FireJob(j, fail, ok)
    \/ Start
    \/ \E t \in TickTargets : Tick(t)

\* APScheduler wakes up at the next run_date and runs every due job
SpecLive ==
    /\ Init
    /\ [][NextLive]_vars
    /\ WF_vars(Start)
    /\ WF_vars(\E t \in TickTargets : Tick(t))
    /\ WF_vars(\E j \in JobIds, fail \in FailPoints, ok \in BOOLEAN : FireJob(j, fail, ok))

(* ---------------- two stories with episodes ---------------- *)
\* Both stories have generated episodes: s1 all of them, s2 its first one.
GeneratedTwo(s) == IF s = "s1" THEN TotalEpisodes(s) ELSE 1

InitTwo ==
    /\ now = 0
    /\ running = FALSE
    /\ story = [s \in Stories |-> InitStory(GeneratedTwo(s))]
    /\ episode = [s \in Stories |-> [i \in 1..GeneratedTwo(s) |-> InitEpisode]]
    /\ jobs = << >>
    /\ last = NoCall
    /\ publishCount = [s \in Stories |-> [i \in 1..NumEpisodes |-> 0]]
    /\ notifyCount = [s \in Stories |-> [i \in 1..NumEpisodes |-> 0]]
    /\ faults = 0
    /\ schedCalls = 0
    /\ inflight = [p \in Procs |-> Idle]
    /\ prefs = [u \in UserIds |-> PrefsRow("off")]
    /\ subs = Targets
    /\ nw = IdleCall
    /\ tasks = NoTasks

\* the scheduler is started once; the stories are scheduled daily in UTC,
\* published and cancelled
NextTwo ==
    \/ \E s \in Stories, d \in StartDates : ScheduleStoryRelease(s, d, "daily", "UTC")
    \/ \E j \in JobIds, fail \in FailPoints, ok \in BOOLEAN : FireJob(j, fail, ok)
    \/ \E s \in Stories : CancelStorySchedule(s)
    \/ Start
    \/ \E t \in TickTargets : Tick(t)

SpecTwo == InitTwo /\ [][NextTwo]_vars

(* ---------------- create_story and its background tasks ---------------- *)
\* check_interval and max_wait_time of the setup task, in seconds
CheckInterval == 30
MaxWaitTime == 600

\* the optional schedule of a CreateStoryRequest
ScheduleRequests ==
    {[start_date |-> d, release_frequency |-> f, timezone |-> z] :
        d \in StartDates, f \in Frequencies, z \in Timezones}

\* POST /stories with n episodes and the optional schedule sched: the story
\* row is inserted under the fresh id s, and the two background tasks are
\* queued.  With a schedule only the first episode is asked for.
CreateStory(s, n, sched) ==
    /\ tasks.pc = "none"
    /\ story[s] = InitStory(0)
    /\ EpisodesOf(s) = {}
    /\ sched # Null => Instant(sched[1].start_date) > now
    /\ story' = [story EXCEPT ![s] = [InitStory(0) EXCEPT !.total_episodes = n]]
    /\ tasks' = [pc |-> "generate", story |-> s,
                 count |-> IF sched = Null THEN n ELSE 1, i |-> 0,
                 schedule |-> sched, waited |-> 0]
    /\ UNCHANGED << notifyVars, now, running, episode, jobs, last, publishCount,
                    notifyCount, faults, schedCalls, inflight >>

\* episode_index = story.completed_episodes + i + 1
EpisodeIndex(s) == story[s].completed_episodes + tasks.i + 1

\* range(episode_count) is exhausted, or episode_index > story.total_episodes
GenerationOver(s) ==
    \/ tasks.i >= tasks.count
    \/ EpisodeIndex(s) > story[s].total_episodes

\* generate_episodes_background, one pass of its loop: the episode row is
\* added as a draft and the counter incremented, or generate_single_episode
\* raises and the pass is rolled back.  After the loop the next queued task runs.
GenerateEpisodesBackground(ok) ==
    /\ tasks.pc = "generate"
    /\ LET s == tasks.story
           idx == EpisodeIndex(s)
       IN  IF GenerationOver(s)
           THEN /\ ok
                /\ tasks' = [tasks EXCEPT
                                !.pc = IF tasks.schedule = Null THEN "done" ELSE "setup"]
                /\ UNCHANGED << story, episode >>
           ELSE IF ok
           THEN /\ episode' = [episode EXCEPT ![s] =
                                  [k \in EpisodesOf(s) \cup {idx} |->
                                      IF k = idx THEN InitEpisode ELSE episode[s][k]]]
                /\ story' = [story EXCEPT ![s].completed_episodes = @ + 1]
                /\ tasks' = [tasks EXCEPT !.i = @ + 1]
           ELSE /\ tasks' = [tasks EXCEPT !.i = @ + 1]
                /\ UNCHANGED << story, episode >>
    /\ UNCHANGED << notifyVars, now, running, jobs, last, publishCount,
                    notifyCount, faults, schedCalls, inflight >>

\* setup_story_schedule_after_generation, one pass of its loop: when all the
\* episodes are generated it calls schedule_story_episodes and returns;
\* otherwise it sleeps check_interval; after max_wait_time it logs a warning
\* and returns.  The ten minutes of waiting are not counted on the clock of
\* the releases.
SetupStoryScheduleAfterGeneration ==
    /\ tasks.pc = "setup"
    /\ LET s == tasks.story
           r == tasks.schedule[1]
       IN  IF tasks.waited >= MaxWaitTime
           THEN /\ tasks' = [tasks EXCEPT !.pc = "timeout"]
                /\ UNCHANGED << story, episode, jobs, last >>
           ELSE IF story[s].completed_episodes >= story[s].total_episodes
           THEN /\ story' = [story EXCEPT ![s] =
                                ScheduledStoryRow(s, r.start_date, r.release_frequency,
                                                  r.timezone)]
                /\ episode' = [episode EXCEPT ![s] =
                                  ScheduledEpisodeRows(s, r.start_date, r.release_frequency,
                                                       r.timezone)]
                /\ jobs' = ScheduledJobs(jobs, s, r.start_date, r.release_frequency,
                                         r.timezone)
                /\ last' = [op |-> "schedule", story |-> s, idx |-> 0, outcome |-> "ok",
                            start |-> Some(Instant(r.start_date)),
                            freq |-> r.release_frequency, tz |-> r.timezone,
                            prev |-> "none"]
                /\ tasks' = [tasks EXCEPT !.pc = "scheduled"]
           ELSE /\ tasks' = [tasks EXCEPT !.waited = @ + CheckInterval]
                /\ UNCHANGED << story, episode, jobs, last >>
    /\ UNCHANGED << notifyVars, now, running, publishCount, notifyCount, faults,
                    schedCalls, inflight >>

\* a story is created, generated and set up while the scheduler publishes
CreateNext ==
    \/ \E n \in 1..NumEpisodes, sched \in {Null} \cup {Some(r) : r \in ScheduleRequests} :
          CreateStory("s2", n, sched)
    \/ \E ok \in BOOLEAN : GenerateEpisodesBackground(ok)
    \/ SetupStoryScheduleAfterGeneration
    \/ \E j \in JobIds, fail \in FailPoints, ok \in BOOLEAN : FireJob(j, fail, ok)
    \/ Start
    \/ \E t \in TickTargets : Tick(t)

SpecCreate == Init /\ [][CreateNext]_vars

NextRestart ==
    \/ Next
    \/ LoseJobStore

SpecRestart == Init /\ [][NextRestart]_vars

(* ---------------- two scheduler processes ---------------- *)
(* Two service processes, each with its own EpisodeScheduler, share the     *)
(* SQLite database and the Redis job store.  Each runs _publish_episode on  *)
(* its own session; the statements of the two calls interleave.  SQLite has *)
(* no SELECT ... FOR UPDATE: with_for_update() adds nothing to the query,   *)
(* and the rows read are not locked.                                        *)

AllIdle == \A p \in Procs : inflight[p].pc = "idle"

\* The schedulers in ps wake up at the run_date of job j and each of them
\* reads j from the shared store as due before any of them has removed it.
ConcFire(j, ps) ==
    /\ running
    /\ ps # {}
    /\ AllIdle
    /\ j \in DOMAIN jobs
    /\ Due(j) /\ WithinGrace(j)
    /\ jobs' = RemoveJob(jobs, j)
    /\ inflight' = [p \in Procs |->
                      IF p \in ps
                      THEN [pc |-> "select_episode", story |-> j.story, idx |-> j.idx,
                            snap |-> InitStory(0), rows |-> {}]
                      ELSE inflight[p]]
    /\ UNCHANGED << notifyVars, tasks, now, running, story, episode, last,
                    publishCount, notifyCount, faults, schedCalls >>

\* the query for the scheduled episode, and the return when there is none
SelectEpisode(p) ==
    /\ inflight[p].pc = "select_episode"
    /\ inflight' = [inflight EXCEPT ![p] =
                      IF episode[@.story][@.idx].status = "scheduled"
                      THEN [@ EXCEPT !.pc = "select_story"]
                      ELSE Idle]
    /\ last' = IF episode[inflight[p].story][inflight[p].idx].status = "scheduled"
               THEN last
               ELSE [op |-> "publish", story |-> inflight[p].story,
                     idx |-> inflight[p].idx, outcome |-> "noop", start |-> Null,
                     freq |-> "none", tz |-> "none", prev |-> "none"]
    /\ UNCHANGED << notifyVars, tasks, now, running, story, episode, jobs,
                    publishCount, notifyCount, faults, schedCalls >>

\* the query for the story and the count of scheduled episodes; the session
\* then holds the story row with the counter and next_release_at it will write
SelectStory(p) ==
    /\ inflight[p].pc = "select_story"
    /\ inflight' = [inflight EXCEPT ![p] =
                      [@ EXCEPT !.pc = "commit",
                                !.snap = PublishedStoryRow(inflight[p].story)]]
    /\ UNCHANGED << notifyVars, tasks, now, running, story, episode, jobs, last,
                    publishCount, notifyCount, faults, schedCalls >>

\* db.commit(): the UPDATE of the episode row and of the story row
CommitPublish(p) ==
    LET s == inflight[p].story
        i == inflight[p].idx
    IN /\ inflight[p].pc = "commit"
       /\ episode' = [episode EXCEPT ![s][i] = PublishedEpisodeRow(@)]
       /\ story' = [story EXCEPT
                       ![s].completed_episodes = inflight[p].snap.completed_episodes,
                       ![s].next_release_at = inflight[p].snap.next_release_at]
       /\ publishCount' = [publishCount EXCEPT ![s][i] = @ + 1]
       /\ inflight' = [inflight EXCEPT ![p].pc = "notify"]
       /\ UNCHANGED << notifyVars, tasks, now, running, jobs, last, notifyCount, faults, schedCalls >>

\* await self._send_episode_notification(story_id, episode_index)
NotifyPublished(p) ==
    /\ inflight[p].pc = "notify"
    /\ notifyCount' = [notifyCount EXCEPT ![inflight[p].story][inflight[p].idx] = @ + 1]
    /\ last' = [op |-> "publish", story |-> inflight[p].story, idx |-> inflight[p].idx,
                outcome |-> "published", start |-> Null, freq |-> "none",
                tz |-> "none", prev |-> "none"]
    /\ inflight' = [inflight EXCEPT ![p] = Idle]
    /\ UNCHANGED << notifyVars, tasks, now, running, story, episode, jobs,
                    publishCount, faults, schedCalls >>

\* time passes between triggers, not during one
ConcTick(t) == AllIdle /\ Tick(t)

ConcNext ==
    \/ \E s \in Stories, d \in StartDates, f \in Frequencies, z \in Timezones :
          ScheduleStoryRelease(s, d, f, z)
    \/ \E j \in JobIds, ps \in SUBSET Procs : ConcFire(j, ps)
    \/ \E p \in Procs : SelectEpisode(p)
    \/ \E p \in Procs : SelectStory(p)
    \/ \E p \in Procs : CommitPublish(p)
    \/ \E p \in Procs : NotifyPublished(p)
    \/ Start
    \/ \E t \in TickTargets : ConcTick(t)

SpecConc == Init /\ [][ConcNext]_vars

(* ---------------- a cancel in another process ---------------- *)
(* A DELETE /stories/{id}/schedule request is served by one process while   *)
(* a trigger runs in the other.  The session of cancel_story_schedule reads *)
(* the scheduled episodes, and at commit writes the rows it has read.       *)

\* the queries of cancel_story_schedule: the story and its scheduled episodes
CancelSelect(p, s) ==
    /\ running
    /\ inflight[p].pc = "idle"
    /\ story[s].is_serialized
    /\ inflight' = [inflight EXCEPT ![p] =
                      [pc |-> "cancel_commit", story |-> s, idx |-> 0,
                       snap |-> story[s], rows |-> ScheduledEpisodes(s)]]
    /\ UNCHANGED << notifyVars, tasks, now, running, story, episode, jobs, last,
                    publishCount, notifyCount, faults, schedCalls >>

\* the loop over the episodes read, the update of the story, and db.commit()
CancelCommit(p) ==
    LET s == inflight[p].story
        rows == inflight[p].rows
    IN /\ inflight[p].pc = "cancel_commit"
       /\ jobs' = [k \in DOMAIN jobs \ {JobId(s, i) : i \in rows} |-> jobs[k]]
       /\ episode' = [episode EXCEPT ![s] =
                         [i \in EpisodesOf(s) |->
                             IF i \in rows
                             THEN [episode[s][i] EXCEPT !.status = "draft",
                                                        !.scheduled_for = Null]
                             ELSE episode[s][i]]]
       /\ story' = [story EXCEPT ![s].is_serialized = FALSE,
                                 ![s].next_release_at = Null]
       /\ last' = [op |-> "cancel", story |-> s, idx |-> 0, outcome |-> "ok",
                   start |-> Null, freq |-> "none", tz |-> "none", prev |-> "none"]
       /\ inflight' = [inflight EXCEPT ![p] = Idle]
       /\ UNCHANGED << notifyVars, tasks, now, running, publishCount, notifyCount,
                       faults, schedCalls >>

ConcCancelNext ==
    \/ ConcNext
    \/ \E p \in Procs, s \in Stories : CancelSelect(p, s)
    \/ \E p \in Procs : CancelCommit(p)

SpecConcCancel == Init /\ [][ConcCancelNext]_vars

(* ---------------- send_episode_notifications ---------------- *)
(* One call of NotificationWorker.send_episode_notifications for a story   *)
(* and an episode that exist.  The call runs from one await to the next:   *)
(* each step below is one call of a sender with what follows it up to the  *)
(* next call of a sender.  A row of notification_logs is                   *)
(* [user, type, status, attempts, error]; the fields target (the           *)
(* subscription the row was made for), history (what the sender reported,  *)
(* call by call) and slept (the delays of asyncio.sleep) are kept for the  *)
(* statements about the call and are not columns; so is the field resolved *)
(* of the call, the list users_to_notify as the query returned it.         *)

\* NotificationLogDB(..., status = PENDING)
NewLog(u, type, target) ==
    [user |-> u, type |-> type, status |-> "pending", attempts |-> 0,
     error |-> Null, target |-> target, history |-> << >>, slept |-> << >>]

\* the query for the users to notify
UsersToNotify(arg) ==
    IF arg # Null
    THEN IF arg[1] \in DOMAIN prefs THEN << arg[1] >> ELSE << >>
    ELSE SelectSeq(UserOrder, LAMBDA u :
             u \in DOMAIN prefs /\ prefs[u].email_notifications
                                /\ prefs[u].webpush_notifications)

\* if user_prefs.email_notifications and user_prefs.email_address
EmailDue(u) == prefs[u].email_notifications /\ prefs[u].email_address # Null

\* faulty variant: the exponent is the attempt number
Backoff_ExponentOffByOne(attempt) == BaseDelay * 2 ^ attempt

\* delay = self.base_delay * (2 ** (attempt - 1))
Backoff(attempt) == BaseDelay * 2 ^ (attempt - 1)

RECURSIVE PickUser(_, _)
RECURSIVE NextTarget(_, _)

\* results["notifications_sent"] += 1, then the next user
FinishUser(c, live) == PickUser([c EXCEPT !.results.notifications_sent = @ + 1], live)

\* except Exception: results["errors"].append(...), then the next user
FailUser(c, live) == PickUser([c EXCEPT !.results.errors = Append(@, c.user)], live)

\* the head of the loop over the subscriptions: the log row of the next one,
\* or the return of sent_count.  With max_retries = 0 the while loop has no
\* pass and the loop goes on to the next subscription.
NextTarget(c, live) ==
    IF c.targets = << >>
    THEN FinishUser([c EXCEPT !.results.webpush_sent = @ + c.sent_count], live)
    ELSE LET c1 == [c EXCEPT !.attempt = 0,
                             !.log = Append(@, NewLog(c.user, "webpush",
                                                      Some(Head(c.targets))))]
         IN IF 0 < c.max_retries
            THEN [c1 EXCEPT !.pc = "push"]
            ELSE NextTarget([c1 EXCEPT !.targets = Tail(@)], live)

\* if user_prefs.webpush_notifications: the query for the subscriptions
EnterPush(c, live) ==
    IF prefs[c.user].webpush_notifications
    THEN NextTarget([c EXCEPT !.targets = SubsOf(c.user, live), !.sent_count = 0], live)
    ELSE FinishUser(c, live)

\* the head of the loop over users_to_notify, up to the first call of a sender.
\* With max_retries = 0 the while loop of _send_email_notification has no pass:
\* it returns None and the caller counts the email as sent.
PickUser(c, live) ==
    IF c.queue = << >>
    THEN [c EXCEPT !.pc = "done", !.user = "none", !.targets = << >>, !.attempt = 0,
                   !.sent_count = 0]
    ELSE LET u == Head(c.queue)
             c1 == [c EXCEPT !.user = u, !.queue = Tail(@)]
             c2 == [c1 EXCEPT !.attempt = 0,
                              !.log = Append(@, NewLog(u, "email", Null))]
         IN IF EmailDue(u)
            THEN IF 0 < c.max_retries
                 THEN [c2 EXCEPT !.pc = "email"]
                 ELSE EnterPush([c2 EXCEPT !.results.email_sent = @ + 1], live)
            ELSE EnterPush(c1, live)

\* the entry of the call
SendEpisodeNotifications(arg) ==
    /\ nw.pc = "idle"
    /\ nw' = PickUser([nw EXCEPT !.arg = arg, !.resolved = UsersToNotify(arg),
                                 !.queue = UsersToNotify(arg)], subs)
    /\ UNCHANGED << prefs, subs, schedVars, tasks >>

\* the except branch of both retry loops, before its test of attempt
FailedAttempt(c) ==
    [c EXCEPT !.attempt = @ + 1,
              !.log[Len(c.log)].attempts = c.attempt + 1,
              !.log[Len(c.log)].error = Some("send failed")]

\* the else branch: status RETRYING and the sleep
Retrying(c) ==
    [c EXCEPT !.log[Len(c.log)].status = "retrying",
              !.log[Len(c.log)].slept = Append(@, Backoff(c.attempt))]

\* one pass of the while loop of _send_email_notification
EmailAttempt(c, outcome, live) ==
    LET k == Len(c.log)
        c0 == [c EXCEPT !.log[k].history = Append(@, outcome),
                        !.faults = IF outcome = "ok" THEN @ ELSE @ + 1]
    IN IF outcome = "ok"
       THEN EnterPush([c0 EXCEPT !.log[k].status = "sent",
                                 !.log[k].attempts = c.attempt + 1,
                                 !.results.email_sent = @ + 1], live)
       ELSE IF FailedAttempt(c0).attempt >= c.max_retries
            THEN FailUser([FailedAttempt(c0) EXCEPT !.log[k].status = "failed"], live)
            ELSE Retrying(FailedAttempt(c0))

EmailSend(outcome) ==
    /\ nw.pc = "email"
    /\ outcome # "ok" => nw.faults < MaxSendFaults
    /\ nw' = EmailAttempt(nw, outcome, subs)
    /\ UNCHANGED << prefs, subs, schedVars, tasks >>

\* one pass of the while loop of _send_webpush_notifications
PushAttempt(c, outcome, live) ==
    LET k == Len(c.log)
        c0 == [c EXCEPT !.log[k].history = Append(@, outcome),
                        !.faults = IF outcome = "ok" THEN @ ELSE @ + 1]
        rest == [c0 EXCEPT !.targets = Tail(@)]
    IN IF outcome = "ok"
       THEN NextTarget([rest EXCEPT !.log[k].status = "sent",
                                    !.log[k].attempts = c.attempt + 1,
                                    !.sent_count = @ + 1], live)
       ELSE IF outcome = "gone"
       THEN NextTarget([rest EXCEPT !.log[k].status = "failed",
                                    !.log[k].error = Some("Subscription expired")],
                       live)
       ELSE IF FailedAttempt(c0).attempt >= c.max_retries
            THEN NextTarget([FailedAttempt(rest) EXCEPT !.log[k].status = "failed"], live)
            ELSE Retrying(FailedAttempt(c0))

\* faulty variant: the expired subscription is not deleted
LiveAfter_NoDelete(live, t, outcome) == live

\* db.delete(subscription) when the sender reports should_remove_subscription
LiveAfter(live, t, outcome) == IF outcome = "gone" THEN live \ {t} ELSE live

PushSend(outcome) ==
    /\ nw.pc = "push"
    /\ outcome # "ok" => nw.faults < MaxSendFaults
    /\ subs' = LiveAfter(subs, Head(nw.targets), outcome)
    /\ nw' = PushAttempt(nw, outcome, LiveAfter(subs, Head(nw.targets), outcome))
    /\ UNCHANGED << prefs, schedVars, tasks >>

\* status == FAILED, created_at > cutoff_time, attempts < self.max_retries:
\* the rows of the call are less than 24 hours old
FailedNotifications(c) ==
    {k \in DOMAIN c.log : c.log[k].status = "failed" /\ c.log[k].attempts < c.max_retries}

\* retry_failed_notifications after the call: _retry_email_notification and
\* _retry_webpush_notification do nothing, so every selected row is counted
\* as retried and as still failed
RetryFailedNotifications ==
    /\ nw.pc = "done"
    /\ nw.retry_results = Null
    /\ nw' = [nw EXCEPT !.retry_results =
                 Some([retried_count |-> Cardinality(FailedNotifications(nw)),
                       success_count |-> 0,
                       still_failed_count |-> Cardinality(FailedNotifications(nw))])]
    /\ UNCHANGED << prefs, subs, schedVars, tasks >>

InitNotify ==
    /\ SchedulerInit
    /\ prefs \in [UserIds -> {PrefsRow(p) : p \in Profiles}]
    /\ subs = Targets
    /\ nw = IdleCall
    /\ tasks = NoTasks

NextNotify ==
    \/ \E arg \in NotifyArgs : SendEpisodeNotifications(arg)
    \/ \E o \in EmailOutcomes : EmailSend(o)
    \/ \E o \in PushOutcomes : PushSend(o)

SpecNotify == InitNotify /\ [][NextNotify]_vars

\* the worker is constructed with any max_retries from 0 to the default
InitNotifyAny ==
    /\ SchedulerInit
    /\ prefs \in [UserIds -> {PrefsRow(p) : p \in Profiles}]
    /\ subs = Targets
    /\ nw \in {[IdleCall EXCEPT !.max_retries = m] : m \in 0..MaxRetries}
    /\ tasks = NoTasks

NextNotifyAny ==
    \/ NextNotify
    \/ RetryFailedNotifications

SpecNotifyAny == InitNotifyAny /\ [][NextNotifyAny]_vars

(* ======================= the claims ======================= *)
RECURSIVE SumTo(_, _)
SumTo(f, n) == IF n = 0 THEN 0 ELSE f[n] + SumTo(f, n - 1)

\* C1: when publish_episode has just published (story, episode) and is invoked
\* again for the same pair, the second call changes no row, no counter and
\* issues no notification; the pair has then gone to published once, with one
\* increment of completed_episodes and one notification.
C1_IdempotentPublish ==
    [][\A j \in JobIds, ok \in BOOLEAN :
          ( /\ FireJob(j, "none", ok)
            /\ last.op = "publish" /\ last.story = j.story /\ last.idx = j.idx
            /\ last.outcome = "published" )
          => /\ UNCHANGED << story, episode, publishCount, notifyCount >>
             /\ last'.outcome = "noop"
             /\ jobs' = RemoveJob(jobs, j)
             /\ publishCount[j.story][j.idx] = 1
             /\ notifyCount[j.story][j.idx] = 1
             /\ story[j.story].completed_episodes =
                   Generated(j.story) + SumTo(publishCount[j.story], NumEpisodes)
      ]_vars

\* the second of two calls in succession has run, after the first published
C1_Witness ==
    /\ last.op = "publish" /\ last.outcome = "noop" /\ last.prev = "published"
    /\ episode[last.story][last.idx].status = "published"
    /\ publishCount[last.story][last.idx] = 1

\* the episodes of story s that are published
PublishedEpisodes(s) == {i \in EpisodesOf(s) : episode[s][i].status = "published"}

\* C2 (as claimed): under any interleaving of publish_episode executions for
\* the same (story, episode), the episode is set published by at most one
\* commit, completed_episodes is incremented at most once per published
\* episode, and at most one notification is issued.
C2_PublishOnceUnderInterleaving ==
    \A s \in Stories :
        /\ \A i \in 1..NumEpisodes : publishCount[s][i] <= 1 /\ notifyCount[s][i] <= 1
        /\ story[s].completed_episodes <= Generated(s) + Cardinality(PublishedEpisodes(s))

\* C3 (as claimed): after schedule_story with an aware start T0 and cadence
\* daily on a story whose episodes are all unpublished, episode i is due at
\* T0 + (i - 1) days, whatever the timezone argument.
C3_TriggerTimesFromStart ==
    ( /\ last.op = "schedule" /\ last.freq = "daily"
      /\ \A i \in EpisodesOf(last.story) : episode[last.story][i].status = "scheduled" )
    => \A i \in EpisodesOf(last.story) :
          /\ episode[last.story][i].scheduled_for = Some(last.start[1] + (i - 1) * Day)
          /\ JobId(last.story, i) \in DOMAIN jobs
          /\ jobs[JobId(last.story, i)] = last.start[1] + (i - 1) * Day

\* C4: cancel_story_schedule resets every scheduled episode of the story to
\* draft with scheduled_for cleared, clears is_serialized and next_release_at,
\* and leaves every published episode of the story as it was.
C4_CancelResets ==
    [][\A s \in Stories :
          CancelStorySchedule(s)
          => /\ \A i \in EpisodesOf(s) :
                   /\ episode[s][i].status = "scheduled"
                        => /\ episode'[s][i].status = "draft"
                           /\ episode'[s][i].scheduled_for = Null
                   /\ episode[s][i].status = "published"
                        => episode'[s][i] = episode[s][i]
             /\ ~story'[s].is_serialized
             /\ story'[s].next_release_at = Null
      ]_vars

\* a cancel has run on a story with a published and a reset episode
C4_Witness ==
    /\ last.op = "cancel" /\ last.outcome = "ok"
    /\ \E i \in EpisodesOf(last.story) :
          episode[last.story][i].status = "published"
    /\ \E i \in EpisodesOf(last.story) :
          episode[last.story][i].status = "draft"

\* C5 (as claimed): after cancel_story_schedule(story) has returned, the job
\* store holds no job, under any id, that publishes an episode of the story.
C5_NoJobsAfterCancel ==
    (last.op = "cancel" /\ last.outcome = "ok") => JobsOfStory(last.story) = {}

\* C6 (as claimed): a live job for (story, i) implies episode i is scheduled.
C6_JobImpliesScheduled ==
    \A j \in DOMAIN jobs : episode[j.story][j.idx].status = "scheduled"

\* C7 (as claimed): at most one live job publishes a given (story, index).
C7_AtMostOneJobPerEpisode ==
    \A s \in Stories : \A i \in 1..NumEpisodes : Cardinality(JobsOfEpisode(s, i)) <= 1

C9_ReleaseOrder ==
    \A s \in Stories : \A i \in EpisodesOf(s) : \A k \in EpisodesOf(s) :
        (i < k /\ episode[s][k].status = "published")
        => episode[s][i].status = "published"

EarliestScheduled(s) ==
    CHOOSE t \in {episode[s][i].scheduled_for[1] : i \in ScheduledEpisodes(s)} :
        \A i \in ScheduledEpisodes(s) : t <= episode[s][i].scheduled_for[1]

\* C11 (as claimed): after schedule_story and after every successful
\* publish_episode, the story's next_release_at is the earliest scheduled_for
\* of its scheduled episodes, and it is NULL exactly when none is scheduled.
C11_NextReleaseIsEarliestScheduled ==
    ( \/ last.op = "schedule"
      \/ last.op = "publish" /\ last.outcome = "published" )
    => IF ScheduledEpisodes(last.story) = {}
       THEN story[last.story].next_release_at = Null
       ELSE story[last.story].next_release_at = Some(EarliestScheduled(last.story))

(* ---------------- the claims about notification delivery ---------------- *)
\* the range of a sequence
Range(seq) == {seq[k] : k \in 1..Len(seq)}

\* the sender has been called for the row and has reported a failure that is
\* not permanent every time
AllTransient(row) ==
    row.history # << >> /\ Range(row.history) \subseteq {"failed", "transient"}

\* the row is not the one a retry loop is working on
Finished(k) == nw.pc = "done" \/ k < Len(nw.log)

\* C12: for a NotificationAttempt whose sender reports a transient failure
\* every time, the sender is called exactly max_retries times and the row is
\* then failed; the delay slept after the k-th failure (k < max_retries) is
\* base_delay * 2^(k-1); and no send is made for a row that is failed.
C12_RetryCap ==
    [][ /\ \A k \in 1..Len(nw.log) :
              nw.log[k].status = "failed" => nw'.log[k] = nw.log[k]
        /\ \A k \in 1..Len(nw'.log) :
              LET row == nw'.log[k] IN
              AllTransient(row)
              => /\ Len(row.history) <= MaxRetries
                 /\ row.attempts = Len(row.history)
                 /\ row.status = IF Len(row.history) = MaxRetries
                                 THEN "failed" ELSE "retrying"
                 /\ Len(row.slept) = IF Len(row.history) = MaxRetries
                                     THEN MaxRetries - 1 ELSE Len(row.history)
                 /\ \A a \in 1..Len(row.slept) : row.slept[a] = BaseDelay * 2 ^ (a - 1)
                 /\ (nw'.pc = "done" \/ k < Len(nw'.log))
                       => Len(row.history) = MaxRetries
      ]_vars

\* an email row and a push row have each used up their retries
C12_Witness ==
    /\ nw.pc = "done"
    /\ \E k \in 1..Len(nw.log) :
          /\ nw.log[k].type = "email" /\ AllTransient(nw.log[k])
          /\ nw.log[k].status = "failed" /\ Len(nw.log[k].history) = MaxRetries
          /\ nw.log[k].slept = << BaseDelay, 2 * BaseDelay >>
    \/ /\ nw.pc = "done"
       /\ \E k \in 1..Len(nw.log) :
          /\ nw.log[k].type = "webpush" /\ AllTransient(nw.log[k])
          /\ nw.log[k].status = "failed" /\ Len(nw.log[k].history) = MaxRetries
          /\ nw.log[k].slept = << BaseDelay, 2 * BaseDelay >>

\* C13: when the push sender reports an expired subscription on the first
\* attempt, that one send is the only one made for the target, the row is
\* failed with the error recorded, and the subscription is deleted.
C13_PermanentFailure ==
    \A k \in 1..Len(nw.log) :
        (nw.log[k].history # << >> /\ nw.log[k].history[1] = "gone")
        => /\ nw.log[k].history = << "gone" >>
           /\ nw.log[k].status = "failed"
           /\ nw.log[k].error = Some("Subscription expired")
           /\ nw.log[k].target[1] \notin subs
           /\ nw.pc = "push" => k < Len(nw.log)

\* a call has returned after a subscription was reported expired at once
C13_Witness ==
    /\ nw.pc = "done"
    /\ \E k \in 1..Len(nw.log) : nw.log[k].history = << "gone" >>

\* the rows of notification_logs made for user u
RowsOf(u) == {k \in 1..Len(nw.log) : nw.log[k].user = u}

\* C14 (as claimed): a fan-out to the three users, where every send for u1
\* and u3 succeeds and u2's only channel is push and each of its sends is
\* reported expired, leaves the rows of u1 and u3 sent and returns an errors
\* list that holds u2's failure and nothing else.
C14_PartialFailureReported ==
    ( /\ nw.pc = "done" /\ nw.arg = Null
      /\ nw.resolved = UserOrder
      /\ ~EmailDue("u2")
      /\ RowsOf("u1") # {} /\ RowsOf("u2") # {} /\ RowsOf("u3") # {}
      /\ \A k \in RowsOf("u2") : nw.log[k].history = << "gone" >>
      /\ \A k \in RowsOf("u1") \cup RowsOf("u3") : nw.log[k].history = << "ok" >> )
    => /\ \A k \in RowsOf("u1") \cup RowsOf("u3") : nw.log[k].status = "sent"
       /\ nw.results.errors = << "u2" >>

\* C15 (as claimed): when every one of the max_retries attempts of a send
\* fails with an error that is not permanent, on the email or the push
\* channel, the row is failed and the errors list the call returns has an
\* entry for the row's user.
C15_ExhaustedRetriesReported ==
    nw.pc = "done"
    => \A k \in 1..Len(nw.log) :
          (AllTransient(nw.log[k]) /\ Len(nw.log[k].history) = MaxRetries)
          => /\ nw.log[k].status = "failed"
             /\ nw.log[k].user \in Range(nw.results.errors)

\* the users with a preferences row and at least one channel enabled
UsersWithChannel ==
    {u \in DOMAIN prefs : prefs[u].email_notifications \/ prefs[u].webpush_notifications}

\* C16 (as claimed): a call without user_id resolves every user that has at
\* least one channel enabled, and a call with user_id resolves that user and
\* no other.
C16_ResolvedUsers ==
    nw.pc # "idle"
    => IF nw.arg = Null
       THEN Range(nw.resolved) = UsersWithChannel
       ELSE Range(nw.resolved) = {nw.arg[1]} \cap DOMAIN prefs

\* C17 (as claimed): when the call has returned, every resolved user with
\* push enabled has one row per push subscription registered for the user,
\* with a send made for it, and every resolved user with email enabled and an
\* address on file has one email row.
C17_OneAttemptPerTarget ==
    nw.pc = "done"
    => \A u \in Range(nw.resolved) :
          /\ prefs[u].webpush_notifications
                => \A t \in {x \in Targets : Owner(x) = u} :
                      /\ Cardinality({k \in RowsOf(u) : nw.log[k].target = Some(t)}) = 1
                      /\ \A k \in RowsOf(u) :
                            nw.log[k].target = Some(t) => nw.log[k].history # << >>
          /\ EmailDue(u)
                => Cardinality({k \in RowsOf(u) : nw.log[k].type = "email"}) = 1

(* ---------------- the claims about restarts ---------------- *)
\* the interval of a release cadence
Cadence(freq) == IF freq = "weekly" THEN Week ELSE Day

\* the unpublished episode of story s with the lowest index
NextUnpublished(s) == CHOOSE i \in Unpublished(s) : \A k \in Unpublished(s) : i <= k

\* C18 (as claimed): when start-up finds a serialized story whose persisted
\* next_release_at is in the future, with unpublished episodes and no live
\* job, it leaves exactly one live job for the story's next unpublished
\* episode, due not before now and a whole number of cadence intervals away
\* from the persisted next_release_at.
C18_ReconcileRestoresNextJob ==
    [][\A s \in Stories :
          ( /\ Start
            /\ NeedsReschedule(s) /\ JobsOfStory(s) = {} /\ Unpublished(s) # {} )
          => LET i == NextUnpublished(s)
                 js == {j \in DOMAIN jobs' : j.story = s /\ j.idx = i}
             IN /\ Cardinality(js) = 1
                /\ \A j \in js :
                      /\ jobs'[j] >= now
                      /\ (jobs'[j] - story[s].next_release_at[1])
                            % Cadence(story[s].release_frequency) = 0
      ]_vars

\* C19 (as claimed): when start-up has completed, every scheduled episode of
\* every story with serialization active has a live job.
C19_ScheduledEpisodesHaveJobs ==
    [][Start => \A s \in Stories :
                   story'[s].is_serialized
                   => \A i \in EpisodesOf(s) :
                         episode'[s][i].status = "scheduled"
                         => \E j \in DOMAIN jobs' : j.story = s /\ j.idx = i
      ]_vars

(* ---------------- the claim about a cancel racing a trigger ---------------- *)
\* C20 (as claimed): under any interleaving of a cancel with a trigger in
\* flight, the trigger does not publish an episode the cancel has reset to
\* draft, and no step returns a published episode to another status.
C20_CancelRacesPublish ==
    [][ /\ \A p \in Procs :
              CommitPublish(p)
              => episode[inflight[p].story][inflight[p].idx].status # "draft"
        /\ \A s \in Stories : \A i \in EpisodesOf(s) :
              episode[s][i].status = "published" => episode'[s][i].status = "published"
      ]_vars

(* ---------------- the claims about errors and frames ---------------- *)
\* schedule_story_episodes is called for story s in this step: by the
\* schedule request, or by the start-up pass over the stories it selects
ScheduleCalled(s) ==
    \/ \E d \in StartDates, f \in Frequencies, z \in Timezones :
          ScheduleStoryRelease(s, d, f, z)
    \/ Start /\ NeedsReschedule(s)

\* C21 (as claimed): schedule_story on a story that has no draft or scheduled
\* episode fails with a conflict error and leaves the story's is_serialized,
\* next_release_at, release_frequency and the job store unchanged.
C21_ScheduleWithoutEpisodesRejected ==
    [][\A s \in Stories :
          (Unpublished(s) = {} /\ ScheduleCalled(s))
          => /\ story'[s].is_serialized = story[s].is_serialized
             /\ story'[s].next_release_at = story[s].next_release_at
             /\ story'[s].release_frequency = story[s].release_frequency
             /\ jobs' = jobs
             /\ last'.op = "schedule" => last'.outcome = "conflict"
      ]_vars

\* C22 (as claimed): cancel_story_schedule is atomic for its caller: whether
\* it returns or raises, each scheduled episode of the story either is reset
\* to draft with its job removed, or keeps its row and its job.
C22_CancelAtomic ==
    [][\A s \in Stories :
          (CancelStorySchedule(s) \/ CancelStoryScheduleFails(s))
          => \A i \in ScheduledEpisodes(s) :
                \/ /\ episode'[s][i].status = "draft"
                   /\ JobId(s, i) \notin DOMAIN jobs'
                \/ /\ episode'[s][i] = episode[s][i]
                   /\ JobId(s, i) \in DOMAIN jobs' <=> JobId(s, i) \in DOMAIN jobs
      ]_vars

\* the background tasks of create_story have ended
SetupEnded == tasks.pc \in {"scheduled", "timeout"}

\* C23 (as claimed): a story created by create_story with a schedule, and
\* whose first episode was generated, is scheduled once the setup task has
\* ended: is_serialized, the requested frequency, and a next release time.
C23_CreatedStoryGetsScheduled ==
    \A s \in Stories :
        (SetupEnded /\ tasks.story = s /\ 1 \in EpisodesOf(s))
        => /\ story[s].is_serialized
           /\ story[s].release_frequency = tasks.schedule[1].release_frequency
           /\ story[s].next_release_at # Null

\* i and k are unpublished episodes of s with no unpublished episode between
Consecutive(s, i, k) ==
    /\ i \in Unpublished(s)
    /\ k \in Unpublished(s)
    /\ i < k
    /\ \A m \in Unpublished(s) : ~(i < m /\ m < k)

\* C24: a schedule request gives consecutive unpublished episodes trigger
\* times, in the job store and on the episode rows, that differ by exactly one
\* cadence step: a week for weekly, a day for daily and any other value.
C24_ConsecutiveTriggersOneStep ==
    [][\A s \in Stories, d \in StartDates, f \in Frequencies, z \in Timezones :
          ScheduleStoryRelease(s, d, f, z)
          => \A i, k \in EpisodesOf(s) :
                Consecutive(s, i, k)
                => /\ jobs'[JobId(s, k)] - jobs'[JobId(s, i)] = Cadence(f)
                   /\ episode'[s][k].scheduled_for[1] - episode'[s][i].scheduled_for[1]
                         = Cadence(f)
      ]_vars

\* a custom cadence was scheduled over episodes 2 and 3 after episode 1 was
\* published
C24_Witness ==
    /\ last.op = "schedule"
    /\ last.freq = "custom"
    /\ episode[last.story][1].status = "published"
    /\ episode[last.story][2].status = "scheduled"
    /\ episode[last.story][3].status = "scheduled"
    /\ JobId(last.story, 2) \in DOMAIN jobs
    /\ JobId(last.story, 3) \in DOMAIN jobs
    /\ jobs[JobId(last.story, 3)] - jobs[JobId(last.story, 2)] = Day

Terminal(row) == row.status \in {"sent", "failed"}

\* C25 (as claimed): for every max_retries >= 0, when
\* send_episode_notifications has returned every row it added is sent or
\* failed, and a row that is sent or failed keeps its status afterwards,
\* retry_failed_notifications included.
C25_AttemptsEndTerminal ==
    [][/\ nw'.pc = "done" => \A k \in DOMAIN nw'.log : Terminal(nw'.log[k])
       /\ \A k \in DOMAIN nw.log :
             Terminal(nw.log[k]) => /\ k \in DOMAIN nw'.log
                                    /\ nw'.log[k].status = nw.log[k].status
      ]_vars

\* C26 (as claimed): an episode becomes published only at or after the
\* trigger time that its row holds at that moment.
C26_NoPublishAheadOfSchedule ==
    [][\A s \in Stories : \A i \in EpisodesOf(s) :
          (episode[s][i].status # "published" /\ episode'[s][i].status = "published")
          => /\ episode[s][i].scheduled_for # Null
             /\ episode[s][i].scheduled_for[1] <= now
      ]_vars

\* C27 (as claimed): the counter completed_episodes of a story never exceeds
\* its total_episodes, through generation and the scheduled publication of
\* the generated episodes.
C27_CompletedWithinTotal ==
    \A s \in Stories : story[s].completed_episodes <= story[s].total_episodes

\* C29 (as claimed): the column attempts of a row that is sent or failed
\* equals the number of calls of the channel sender made for that row.
C29_AttemptsCountSends ==
    \A k \in DOMAIN nw.log :
        nw.log[k].status \in {"sent", "failed"}
        => nw.log[k].attempts = Len(nw.log[k].history)

\* C28 (as claimed): while the scheduler keeps running and the publish
\* transaction fails only finitely often, a scheduled episode is eventually
\* published.
C28_ScheduledEventuallyPublished ==
    \A s \in Stories : \A i \in 1..NumEpisodes :
        (i \in EpisodesOf(s) /\ episode[s][i].status = "scheduled")
        ~> (i \in EpisodesOf(s) /\ episode[s][i].status = "published")

\* job j is live with the same run_date before and after the step, or live
\* neither before nor after
SameJob(j) ==
    /\ j \in DOMAIN jobs' <=> j \in DOMAIN jobs
    /\ j \in DOMAIN jobs => jobs'[j] = jobs[j]

\* the rows and the jobs of every story but s are as before the step
OtherStoriesUnchanged(s) ==
    \A o \in Stories \ {s} :
        /\ story'[o] = story[o]
        /\ episode'[o] = episode[o]
        /\ \A j \in JobIds : j.story = o => SameJob(j)

\* C30: a trigger of (story, i) changes no other episode row, no other story
\* and no job of another episode; schedule_story_episodes and
\* cancel_story_schedule change no row and no job of another story.
C30_FrameEffects ==
    [][/\ \A j \in JobIds, fail \in FailPoints, ok \in BOOLEAN :
             FireJob(j, fail, ok)
             => /\ OtherStoriesUnchanged(j.story)
                /\ \A k \in EpisodesOf(j.story) \ {j.idx} :
                      episode'[j.story][k] = episode[j.story][k]
                /\ \A k \in JobIds :
                      (k.story = j.story /\ k.idx # j.idx) => SameJob(k)
       /\ \A s \in Stories, d \in StartDates, f \in Frequencies, z \in Timezones :
             ScheduleStoryRelease(s, d, f, z) => OtherStoriesUnchanged(s)
       /\ \A s \in Stories : CancelStorySchedule(s) => OtherStoriesUnchanged(s)
      ]_vars

\* a schedule was cancelled while another story has a scheduled episode with
\* a live job
C30_Witness ==
    /\ last.op = "cancel"
    /\ \E o \in Stories \ {last.story} :
          \E i \in ScheduledEpisodes(o) : JobId(o, i) \in DOMAIN jobs

====
